---- MODULE Spec2Model ----
(***************************************************************************)
(* Model of airobo_trainer/models/scoring_system.py: the ScoringSystem     *)
(* state machine (instruction periods, intention history, score, bonus,    *)
(* leaderboard) driven by a wall clock that datetime.now() reads, and of    *)
(* airobo_trainer/models/bci_core.py: the AttentionCalculator buffers and  *)
(* the attention pair computed from the two motor band powers.             *)
(*                                                                         *)
(* Averages are Python floats sum(xs)/len(xs) of small integers; they are  *)
(* kept as exact fractions <<sum, len>> and compared by cross              *)
(* multiplication, which agrees with the float comparison for these sizes. *)
(***************************************************************************)
EXTENDS Integers, Sequences, FiniteSets, TLC

VARIABLES
    current_score,          \* self.current_score
    instruction_periods,    \* self.instruction_periods (list of dicts)
    current_period_start,   \* self.current_period_start (None or a clock reading)
    current_mode,           \* self.current_mode
    intention_history,      \* self.intention_history: <<timestamp, left, right>>
    leaderboard,            \* self.leaderboard (list of ScoreEntry objects)
    leaderboard_file,       \* content of the file at self.leaderboard_file
    next_id,                \* identity of the next ScoreEntry object created
    now,                    \* last value datetime.now() returned
    open_mark,              \* len(intention_history) when the open period was opened
    bonuses,                \* bonus awards made since the last start_experiment
    last,                   \* the last call: name, arguments, result, state before it
    pc,                     \* position of the scripted caller (SpecScenario)
    calc,                   \* arguments and results of _calculate_points (SpecPoints)
    returned,               \* the list a caller holds from get_leaderboard()
    left_buffer,            \* AttentionCalculator.left_buffer
    center_buffer,          \* AttentionCalculator.center_buffer
    right_buffer,           \* AttentionCalculator.right_buffer
    n_accepted,             \* add_sample calls that stored their sample
    n_rejected,             \* add_sample calls with fewer than 3 values
    fs,                     \* AttentionCalculator.fs (the sampling rate)
    change_frame,           \* a change_instruction call in progress on a thread
    _running,               \* BCIEngine._running
    _recording,             \* BCIEngine._recording
    _csv_file,              \* BCIEngine._csv_file (None or a file object)
    _csv_writer,            \* BCIEngine._csv_writer (None or the file it writes)
    open_files,             \* for each file object opened, whether it is open
    rows,                   \* data rows written to CSV files
    stream,                 \* the stream thread inside gds_callback
    stopper                 \* the thread inside stop_recording

engine == <<current_score, instruction_periods, current_period_start,
            current_mode, intention_history, leaderboard, leaderboard_file,
            next_id>>

vars == <<current_score, instruction_periods, current_period_start,
          current_mode, intention_history, leaderboard, leaderboard_file,
          next_id, now, open_mark, bonuses, last, pc, calc, returned,
          left_buffer, center_buffer, right_buffer, n_accepted, n_rejected,
          fs, change_frame, _running, _recording, _csv_file, _csv_writer,
          open_files, rows, stream, stopper>>

calculator ==
    <<left_buffer, center_buffer, right_buffer, n_accepted, n_rejected, fs>>

bci == <<_running, _recording, _csv_file, _csv_writer, open_files, rows,
         stream, stopper>>

\* what the actions of the scoring engine and of the calculator leave alone
others == <<change_frame, bci>>

----------------------------------------------------------------------------
(* Bounds of the model *)

MaxTime == 1
MaxHist == 2
MaxPeriods == 2
MaxBonus == 1
MaxSubmits == 1
MaxSamples == 1001
MaxAttentionSamples == 100
MaxRejected == 1
PointsDen == 10
PointsNear == 3
MaxEnds == 2
MaxBlocks == 2
MaxFiles == 2

(* Program constants *)

None == -1
TOP_N == 10
BONUS_POINTS == 200
BONUS_THRESHOLD == 90
buffer_size == 1000
MIN_SAMPLES == 100
DEFAULT_RATE == 500
BLOCK_SIZE == 8

Modes == {"relax", "left", "right"}
LeftRight == {"left", "right"}

\* (left_intention, right_intention) pairs the caller passes to update_intention
IntentionPairs == {<<95, 10>>, <<85, 95>>}

Names == {"p"}

----------------------------------------------------------------------------
(* datetime.now(): the wall clock never runs backwards, and two successive  *)
(* readings may be equal (the clock is coarser than the calls are fast).    *)

ClockReads(t) == {u \in {t, t + 1} : u <= MaxTime}

----------------------------------------------------------------------------
(* Fractions *)

Frac(s, n) == <<s, n>>
FracGE(a, k) == a[1] >= k * a[2]        \* a >= k, k an integer
FracGT(a, k) == a[1] > k * a[2]         \* a >  k
FracLE2(a, b) == a[1] * b[2] <= b[1] * a[2]
FracEq(a, b) == a[1] * b[2] = b[1] * a[2]

RECURSIVE SumSeq(_)
SumSeq(s) == IF s = <<>> THEN 0 ELSE Head(s) + SumSeq(Tail(s))

\* sum(xs) / len(xs)
Mean(xs) == Frac(SumSeq(xs), Len(xs))

\* sum of fractions / count, for end_experiment's overall_avg
RECURSIVE SumFrac(_)
SumFrac(fracs) ==
    IF fracs = <<>> THEN Frac(0, 1)
    ELSE LET h == Head(fracs)
             r == SumFrac(Tail(fracs))
         IN  Frac(h[1] * r[2] + r[1] * h[2], h[2] * r[2])

MeanFrac(fracs) == LET s == SumFrac(fracs) IN Frac(s[1], s[2] * Len(fracs))

----------------------------------------------------------------------------
(* ScoringSystem._calculate_points *)

_calculate_points_strict(avg_intention) ==
    IF FracGT(avg_intention, 90) THEN 100
    ELSE IF FracGT(avg_intention, 80) THEN 75
    ELSE IF FracGT(avg_intention, 70) THEN 50
    ELSE IF FracGT(avg_intention, 60) THEN 25
    ELSE IF FracGT(avg_intention, 50) THEN 10
    ELSE 0

_calculate_points(avg_intention) ==
    IF FracGE(avg_intention, 90) THEN 100
    ELSE IF FracGE(avg_intention, 80) THEN 75
    ELSE IF FracGE(avg_intention, 70) THEN 50
    ELSE IF FracGE(avg_intention, 60) THEN 25
    ELSE IF FracGE(avg_intention, 50) THEN 10
    ELSE 0

----------------------------------------------------------------------------
(* ScoreEntry and the leaderboard file *)

\* datetime.isoformat / datetime.fromisoformat: the text form of a clock
\* reading, whole seconds and microseconds (a reading counts microseconds)
isoformat_seconds(t) == <<"iso", t \div 1000000, 0>>

isoformat(t) == <<"iso", t \div 1000000, t % 1000000>>

fromisoformat(s) == s[2] * 1000000 + s[3]

\* a timestamp string fromisoformat accepts
is_iso(s) == s[1] = "iso"

\* ScoreEntry.__init__: a new object; id stands for the object's identity
ScoreEntry(id, score, name, timestamp) ==
    [id |-> id, score |-> score, name |-> name, timestamp |-> timestamp]

\* a JSON object of the file: the keys it has and their values
to_dict(entry) ==
    [keys |-> {"score", "name", "timestamp"},
     score |-> entry.score, name |-> entry.name,
     timestamp |-> isoformat(entry.timestamp)]

from_dict(id, data) ==
    ScoreEntry(id, data.score,
               IF "name" \in data.keys THEN data.name ELSE "",
               fromisoformat(data.timestamp))

\* the exception from_dict(data) raises, "" when it returns
from_dict_error(data) ==
    IF "score" \notin data.keys THEN "KeyError"
    ELSE IF "timestamp" \notin data.keys THEN "KeyError"
    ELSE IF ~is_iso(data.timestamp) THEN "ValueError"
    ELSE ""

\* ScoringSystem.__init__'s leaderboard_file argument
DefaultPath == "airobo_trainer/leaderboard.json"
BarePath == "leaderboard.json"

\* os.path.dirname
dirname(path) == IF path = BarePath THEN "" ELSE "airobo_trainer"

\* The file at a path: whether it exists, the form of its text ("json_list":
\* a JSON list of objects, "not_records": any other valid JSON, "not_json")
\* and, for a JSON list of objects, the objects.
File(path, exists, form, data) ==
    [path |-> path, exists |-> exists, form |-> form, data |-> data]

NoFile == File(DefaultPath, FALSE, "json_list", <<>>)

\* the exception raised inside the try block of _load_leaderboard, "" if none
load_error(file) ==
    IF ~file.exists THEN ""
    ELSE IF file.form = "not_json" THEN "JSONDecodeError"
    ELSE IF file.form = "not_records" THEN "TypeError"
    ELSE IF \E i \in 1..Len(file.data) : from_dict_error(file.data[i]) # ""
         THEN LET i == CHOOSE i \in 1..Len(file.data) :
                           /\ from_dict_error(file.data[i]) # ""
                           /\ \A j \in 1..(i - 1) : from_dict_error(file.data[j]) = ""
              IN  from_dict_error(file.data[i])
         ELSE ""

\* line 67: except (json.JSONDecodeError, KeyError)
CaughtOnLoad == {"JSONDecodeError", "KeyError"}

\* the exception _load_leaderboard lets through to __init__'s caller
_load_leaderboard_raises(file) ==
    IF load_error(file) \in CaughtOnLoad THEN "" ELSE load_error(file)

\* the list _load_leaderboard returns; the objects it creates get the
\* identities -1, -2, ...
_load_leaderboard(file) ==
    IF file.exists /\ load_error(file) = ""
    THEN [i \in 1..Len(file.data) |-> from_dict(-i, file.data[i])]
    ELSE <<>>

\* _save_leaderboard: what can happen to the file.  os.makedirs raises
\* FileNotFoundError on the empty dirname of a bare file name; otherwise the
\* directory or the file may be unwritable, or the write may fail half way.
SaveOutcomes(file) ==
    IF dirname(file.path) = "" THEN {"makedirs_empty"}
    ELSE {"ok", "makedirs_fails", "open_fails", "write_fails"}

\* the exception _save_leaderboard raises, "" when the save succeeds
save_error_none(outcome) == ""

save_error(outcome) ==
    IF outcome = "ok" THEN ""
    ELSE IF outcome = "makedirs_empty" THEN "FileNotFoundError"
    ELSE "OSError"

\* _save_leaderboard: the file is rewritten with every entry's to_dict
_save_leaderboard(file, board, outcome) ==
    IF outcome = "ok"
    THEN File(file.path, TRUE, "json_list",
              [i \in 1..Len(board) |-> to_dict(board[i])])
    ELSE IF outcome = "write_fails"
    THEN File(file.path, TRUE, "not_json", <<>>)
    ELSE file

----------------------------------------------------------------------------
(* The scan of intention_history that change_instruction (lines 121-126)    *)
(* and end_experiment (lines 186-191) both make: the values of the arm      *)
(* `mode` of the entries with start <= timestamp <= end, in history order.  *)

RECURSIVE period_intentions_else(_, _, _, _)
period_intentions_else(history, start, end, mode) ==
    IF history = <<>> THEN <<>>
    ELSE LET e == Head(history)
             rest == period_intentions_else(Tail(history), start, end, mode)
         IN  IF start <= e[1] /\ e[1] <= end
             THEN IF mode = "left" THEN <<e[2]>> \o rest
                  ELSE <<e[3]>> \o rest
             ELSE rest

RECURSIVE period_intentions(_, _, _, _)
period_intentions(history, start, end, mode) ==
    IF history = <<>> THEN <<>>
    ELSE LET e == Head(history)
             rest == period_intentions(Tail(history), start, end, mode)
         IN  IF start <= e[1] /\ e[1] <= end
             THEN IF mode = "left" THEN <<e[2]>> \o rest
                  ELSE IF mode = "right" THEN <<e[3]>> \o rest
                  ELSE rest
             ELSE rest

should_award_points_any(mode, new_mode) ==
    \/ mode = "relax" /\ new_mode \in LeftRight
    \/ mode \in LeftRight /\ new_mode \in LeftRight
    \/ mode \in LeftRight /\ new_mode = "relax"

should_award_points(mode, new_mode) ==
    \/ mode = "relax" /\ new_mode \in LeftRight
    \/ mode \in LeftRight /\ new_mode \in LeftRight /\ mode # new_mode
    \/ mode \in LeftRight /\ new_mode = "relax"

\* a period record that does not keep the points it was scored with
PeriodRecord_unscored(start, end, mode, avg_intention, points) ==
    [start |-> start, end |-> end, mode |-> mode,
     avg_intention |-> avg_intention, points |-> 0]

\* the period record change_instruction appends (lines 134-140)
PeriodRecord(start, end, mode, avg_intention, points) ==
    [start |-> start, end |-> end, mode |-> mode,
     avg_intention |-> avg_intention, points |-> points]

\* end_experiment lines 177-195: the recomputed mean of every left/right
\* period that has entries
RECURSIVE all_left_right_intentions(_, _)
all_left_right_intentions(periods, history) ==
    IF periods = <<>> THEN <<>>
    ELSE LET period == Head(periods)
             xs == period_intentions(history, period.start, period.end, period.mode)
             rest == all_left_right_intentions(Tail(periods), history)
         IN  IF period.mode \in LeftRight /\ xs # <<>>
             THEN <<Mean(xs)>> \o rest
             ELSE rest

\* end_experiment lines 198-202: the bonus the call adds
bonus_points(periods, history) ==
    LET avgs == all_left_right_intentions(periods, history)
    IN  IF avgs # <<>> /\ FracGT(MeanFrac(avgs), BONUS_THRESHOLD)
        THEN BONUS_POINTS
        ELSE 0

----------------------------------------------------------------------------
(* The record of the last call made on the engine *)

Call(op, arg, ret, end_time) ==
    [op |-> op, arg |-> arg, ret |-> ret, end_time |-> end_time,
     pre_mode |-> current_mode,
     pre_start |-> current_period_start,
     raised |-> ""]

\* a call that raised the exception exc instead of returning
Raised(op, arg, exc) == [Call(op, arg, None, None) EXCEPT !.raised = exc]

NoCall ==
    [op |-> "__init__", arg |-> <<>>, ret |-> None, end_time |-> None,
     pre_mode |-> "relax", pre_start |-> None, raised |-> ""]

----------------------------------------------------------------------------
(* ScoringSystem.__init__ *)

\* leaderboard files that may exist when the engine is constructed
InitFiles ==
    {NoFile,
     File(DefaultPath, TRUE, "json_list",
          <<to_dict(ScoreEntry(0, 100, "p", 0))>>)}

NoCalc == [x |-> Frac(0, 1), y |-> Frac(0, 1), px |-> None, py |-> None]

\* ScoringSystem.__init__ against one of the files of `files`; when
\* _load_leaderboard raises, so does the constructor and there is no engine
InitEngineFrom(files) ==
    /\ current_score = 0
    /\ instruction_periods = <<>>
    /\ current_period_start = None
    /\ current_mode = "relax"
    /\ intention_history = <<>>
    /\ leaderboard_file \in files
    /\ leaderboard = _load_leaderboard(leaderboard_file)
    /\ next_id = 1
    /\ now = 0
    /\ open_mark = 0
    /\ bonuses = 0
    /\ last = [NoCall EXCEPT !.raised = _load_leaderboard_raises(leaderboard_file)]

InitEngine == InitEngineFrom(InitFiles)

\* AttentionCalculator.__init__ with one of the sampling rates `rates`
InitCalculatorAt(rates) ==
    /\ fs \in rates
    /\ left_buffer = <<>>
    /\ center_buffer = <<>>
    /\ right_buffer = <<>>
    /\ n_accepted = 0
    /\ n_rejected = 0

\* the thread frames when no call is in progress
NoFrame == [at |-> "idle", new_mode |-> "relax", end_time |-> None]
NoBlock == [at |-> "idle", left |-> 0, error |-> "", blocks |-> 0]

\* BCIEngine.__init__ (lines 202-205), no file open, no thread in a call
InitBCI ==
    /\ _running = FALSE
    /\ _recording = FALSE
    /\ _csv_file = None
    /\ _csv_writer = None
    /\ open_files = <<>>
    /\ rows = 0
    /\ stream = NoBlock
    /\ stopper = "idle"

\* AttentionCalculator() at its default sampling rate, and the rest idle
InitCalculator ==
    /\ InitCalculatorAt({DEFAULT_RATE})
    /\ InitBCI
    /\ change_frame = NoFrame

Init ==
    /\ InitEngine
    /\ InitCalculator
    /\ returned = <<>>
    /\ pc = 0
    /\ calc = NoCalc

----------------------------------------------------------------------------
(* ScoringSystem.start_experiment *)

start_experiment_keeps_history ==
    \E t \in ClockReads(now) :
        /\ now' = t
        /\ current_score' = 0
        /\ instruction_periods' = <<>>
        /\ current_period_start' = t
        /\ current_mode' = "relax"
        /\ open_mark' = 0
        /\ bonuses' = 0
        /\ last' = Call("start_experiment", <<>>, None, None)
        /\ UNCHANGED <<intention_history, leaderboard, leaderboard_file, next_id>>

start_experiment ==
    \E t \in ClockReads(now) :
        /\ now' = t
        /\ current_score' = 0
        /\ instruction_periods' = <<>>
        /\ current_period_start' = t
        /\ current_mode' = "relax"
        /\ intention_history' = <<>>
        /\ open_mark' = 0
        /\ bonuses' = 0
        /\ last' = Call("start_experiment", <<>>, None, None)
        /\ UNCHANGED <<leaderboard, leaderboard_file, next_id>>

(* ScoringSystem.update_intention *)

update_intention_insert_front(left_intention, right_intention) ==
    \E t \in ClockReads(now) :
        /\ now' = t
        /\ intention_history' =
               <<<<t, left_intention, right_intention>>>> \o intention_history
        /\ last' = Call("update_intention", <<left_intention, right_intention>>,
                        None, None)
        /\ UNCHANGED <<current_score, instruction_periods, current_period_start,
                       current_mode, leaderboard, leaderboard_file, next_id,
                       open_mark, bonuses>>

update_intention(left_intention, right_intention) ==
    \E t \in ClockReads(now) :
        /\ now' = t
        /\ intention_history' =
               Append(intention_history, <<t, left_intention, right_intention>>)
        /\ last' = Call("update_intention", <<left_intention, right_intention>>,
                        None, None)
        /\ UNCHANGED <<current_score, instruction_periods, current_period_start,
                       current_mode, leaderboard, leaderboard_file, next_id,
                       open_mark, bonuses>>

(* ScoringSystem.change_instruction *)

\* line 105: no period is open before the first start_experiment
no_period_open_never(start) == FALSE

no_period_open(start) == start = None

\* lines 142-144: the period is reopened at the clock reading t, whatever
\* the transition was
new_period_start_if_changed(mode, new_mode, start, t) ==
    IF mode = new_mode THEN start ELSE t

new_period_start(mode, new_mode, start, t) == t

change_instruction(new_mode) ==
    IF no_period_open(current_period_start)
    THEN /\ last' = Call("change_instruction", <<new_mode>>, None, None)
         /\ UNCHANGED <<engine, now, open_mark, bonuses>>
    ELSE LET award == should_award_points(current_mode, new_mode) IN
         \* line 119 reads the clock only when the closing period is scored
         \E end_time \in (IF award THEN ClockReads(now) ELSE {now}) :
         \E start \in ClockReads(end_time) :
            LET xs == IF award
                      THEN period_intentions(intention_history,
                               current_period_start, end_time, current_mode)
                      ELSE <<>>
                avg_intention == Mean(xs)
                points == _calculate_points(avg_intention)
            IN  /\ IF xs # <<>>
                   THEN /\ current_score' = current_score + points
                        /\ instruction_periods' =
                               Append(instruction_periods,
                                      PeriodRecord(current_period_start, end_time,
                                                   current_mode, avg_intention,
                                                   points))
                   ELSE UNCHANGED <<current_score, instruction_periods>>
                /\ current_mode' = new_mode
                /\ current_period_start' =
                       new_period_start(current_mode, new_mode,
                                        current_period_start, start)
                /\ now' = start
                /\ open_mark' = Len(intention_history)
                /\ last' = Call("change_instruction", <<new_mode>>, None,
                                IF award THEN end_time ELSE None)
                /\ UNCHANGED <<intention_history, leaderboard, leaderboard_file,
                               next_id, bonuses>>

(* ScoringSystem.end_experiment *)

end_experiment ==
    LET bonus == bonus_points(instruction_periods, intention_history) IN
        /\ current_score' = current_score + bonus
        /\ bonuses' = IF bonus > 0 THEN bonuses + 1 ELSE bonuses
        /\ last' = Call("end_experiment", <<>>, current_score + bonus, None)
        /\ UNCHANGED <<instruction_periods, current_period_start, current_mode,
                       intention_history, leaderboard, leaderboard_file, next_id,
                       now, open_mark>>

(* ScoringSystem.submit_score *)

\* a sort that is not stable: among equal scores the later entry comes first
RECURSIVE sort_desc_later_first(_)
sort_desc_later_first(board) ==
    IF board = <<>> THEN <<>>
    ELSE LET best == CHOOSE i \in 1..Len(board) :
                        /\ \A j \in 1..Len(board) : board[j].score <= board[i].score
                        /\ \A j \in (i + 1)..Len(board) : board[j].score < board[i].score
             rest == [k \in 1..(Len(board) - 1) |->
                          IF k < best THEN board[k] ELSE board[k + 1]]
         IN  <<board[best]>> \o sort_desc_later_first(rest)

\* list.sort(key=score, reverse=True): stable, so equal scores keep their order
RECURSIVE sort_desc(_)
sort_desc(board) ==
    IF board = <<>> THEN <<>>
    ELSE LET best == CHOOSE i \in 1..Len(board) :
                        /\ \A j \in 1..Len(board) : board[j].score <= board[i].score
                        /\ \A j \in 1..(i - 1) : board[j].score < board[i].score
             rest == [k \in 1..(Len(board) - 1) |->
                          IF k < best THEN board[k] ELSE board[k + 1]]
         IN  <<board[best]>> \o sort_desc(rest)

\* self.leaderboard[:10]
truncate(board) == SubSeq(board, 1, IF Len(board) < TOP_N THEN Len(board) ELSE TOP_N)

\* lines 221-233; the entry is appended, the list sorted and cut before the
\* save, so a save that raises leaves them done
submit_score(name) ==
    \E t \in ClockReads(now) :
    \E outcome \in SaveOutcomes(leaderboard_file) :
        LET entry == ScoreEntry(next_id, current_score, name, t)
            board == truncate(sort_desc(Append(leaderboard, entry)))
            exc == save_error(outcome)
        IN  /\ now' = t
            /\ next_id' = next_id + 1
            /\ leaderboard' = board
            /\ leaderboard_file' = _save_leaderboard(leaderboard_file, board, outcome)
            /\ last' = IF exc = ""
                       THEN Call("submit_score", <<name>>,
                                 \E i \in 1..Len(board) : board[i].id = entry.id,
                                 None)
                       ELSE Raised("submit_score", <<name>>, exc)
            /\ UNCHANGED <<current_score, instruction_periods,
                           current_period_start, current_mode, intention_history,
                           open_mark, bonuses>>

(* ScoringSystem.get_leaderboard *)

\* list.copy(): a new list of the same ScoreEntry objects
get_leaderboard ==
    /\ returned' = leaderboard
    /\ last' = Call("get_leaderboard", <<>>, None, None)
    /\ UNCHANGED <<engine, now, open_mark, bonuses>>

(* ScoringSystem.is_top_10_score *)

\* min(entry.score for entry in self.leaderboard)
min_score(board) ==
    CHOOSE m \in {board[i].score : i \in 1..Len(board)} :
        \A i \in 1..Len(board) : m <= board[i].score

is_top_10_score_or_equal(board, score) ==
    IF Len(board) < TOP_N THEN TRUE ELSE score >= min_score(board)

is_top_10_score(board, score) ==
    IF Len(board) < TOP_N THEN TRUE ELSE score > min_score(board)

IsTop10ScoreCall(score) ==
    /\ last' = Call("is_top_10_score", <<score>>,
                    is_top_10_score(leaderboard, score), None)
    /\ UNCHANGED <<engine, now, open_mark, bonuses>>

(* What a caller can do to the list get_leaderboard returned.  The list is  *)
(* the caller's own; its elements are the engine's ScoreEntry objects, so   *)
(* an attribute assigned through the list is assigned on the object that    *)
(* self.leaderboard holds too.                                              *)

CallerScores == {5000}
CallerNames == {"x"}
CallerTimes == {2000000}

\* the object `id` with one attribute assigned, wherever a list holds it
assign(list, id, field, value) ==
    [i \in 1..Len(list) |->
        IF list[i].id = id
        THEN IF field = "score" THEN [list[i] EXCEPT !.score = value]
             ELSE IF field = "name" THEN [list[i] EXCEPT !.name = value]
             ELSE [list[i] EXCEPT !.timestamp = value]
        ELSE list[i]]

reversed(list) == [i \in 1..Len(list) |-> list[Len(list) + 1 - i]]

\* returned.append(ScoreEntry(...)), returned.pop(), returned.reverse()
caller_mutates_list ==
    /\ \/ \E v \in CallerScores, n \in CallerNames, t \in CallerTimes :
              returned' = Append(returned, ScoreEntry(0, v, n, t))
       \/ returned # <<>> /\ returned' = SubSeq(returned, 1, Len(returned) - 1)
       \/ Len(returned) > 1 /\ returned' = reversed(returned)
    /\ last' = Call("caller_mutates_list", <<>>, None, None)
    /\ UNCHANGED <<engine, now, open_mark, bonuses>>

\* returned[-1].score = v, returned[-1].name = n, returned[-1].timestamp = t
caller_mutates_entry ==
    /\ returned # <<>>
    /\ \E fv \in ({"score"} \X CallerScores) \cup ({"name"} \X CallerNames)
                 \cup ({"timestamp"} \X CallerTimes) :
          LET id == returned[Len(returned)].id IN
              /\ returned' = assign(returned, id, fv[1], fv[2])
              /\ leaderboard' = assign(leaderboard, id, fv[1], fv[2])
              /\ last' = Call("caller_mutates_entry", <<fv[1]>>, None, None)
    /\ UNCHANGED <<current_score, instruction_periods, current_period_start,
                   current_mode, intention_history, leaderboard_file, next_id,
                   now, open_mark, bonuses>>

----------------------------------------------------------------------------
(* The engine under any caller, within the bounds *)

StartExperiment == start_experiment /\ UNCHANGED <<pc, calc, returned, calculator, others>>

UpdateIntention ==
    /\ Len(intention_history) < MaxHist
    /\ \E p \in IntentionPairs : update_intention(p[1], p[2])
    /\ UNCHANGED <<pc, calc, returned, calculator, others>>

ChangeInstruction ==
    /\ Len(instruction_periods) < MaxPeriods
    /\ \E m \in Modes : change_instruction(m)
    /\ UNCHANGED <<pc, calc, returned, calculator, others>>

EndExperiment ==
    /\ bonuses < MaxBonus
    /\ end_experiment
    /\ UNCHANGED <<pc, calc, returned, calculator, others>>

\* __init__ returned an engine
Constructed == ~(last.op = "__init__" /\ last.raised # "")

SubmitScore ==
    /\ Constructed
    /\ next_id <= MaxSubmits
    /\ \E n \in Names : submit_score(n)
    /\ UNCHANGED <<pc, calc, returned, calculator, others>>

Next ==
    \/ StartExperiment
    \/ UpdateIntention
    \/ ChangeInstruction
    \/ EndExperiment

Spec == Init /\ [][Next]_vars

----------------------------------------------------------------------------
(* The scripted caller of the scoring scenario: start_experiment,           *)
(* change_instruction('left'), update_intention(95, 10) five times,         *)
(* change_instruction('right'), update_intention(10, 95) five times,        *)
(* change_instruction('relax'), end_experiment. Only the clock is free.     *)

Script ==
    <<  <<"start_experiment">>,
        <<"change_instruction", "left">>,
        <<"update_intention", 95, 10>>, <<"update_intention", 95, 10>>,
        <<"update_intention", 95, 10>>, <<"update_intention", 95, 10>>,
        <<"update_intention", 95, 10>>,
        <<"change_instruction", "right">>,
        <<"update_intention", 10, 95>>, <<"update_intention", 10, 95>>,
        <<"update_intention", 10, 95>>, <<"update_intention", 10, 95>>,
        <<"update_intention", 10, 95>>,
        <<"change_instruction", "relax">>,
        <<"end_experiment">>  >>

ScriptAt(op) == pc \in 1..Len(Script) /\ Script[pc][1] = op

ScriptStart ==
    /\ ScriptAt("start_experiment")
    /\ start_experiment
    /\ pc' = pc + 1 /\ UNCHANGED <<calc, returned, calculator, others>>

ScriptUpdate ==
    /\ ScriptAt("update_intention")
    /\ update_intention(Script[pc][2], Script[pc][3])
    /\ pc' = pc + 1 /\ UNCHANGED <<calc, returned, calculator, others>>

ScriptChange ==
    /\ ScriptAt("change_instruction")
    /\ change_instruction(Script[pc][2])
    /\ pc' = pc + 1 /\ UNCHANGED <<calc, returned, calculator, others>>

ScriptEnd ==
    /\ ScriptAt("end_experiment")
    /\ end_experiment
    /\ pc' = pc + 1 /\ UNCHANGED <<calc, returned, calculator, others>>

InitScenario ==
    InitEngine /\ InitCalculator /\ returned = <<>> /\ pc = 1 /\ calc = NoCalc

NextScenario == ScriptStart \/ ScriptUpdate \/ ScriptChange \/ ScriptEnd

SpecScenario == InitScenario /\ [][NextScenario]_vars

----------------------------------------------------------------------------
(* The leaderboard: an engine constructed against one of BoardFiles, a      *)
(* caller that runs the session of tests/test_scoring.py (start_experiment, *)
(* change_instruction('left'), update_intention(95, 10),                    *)
(* change_instruction('right'), update_intention(10, 95), end_experiment)   *)
(* and that may, at any point of it, submit the score and ask whether a     *)
(* score would enter the leaderboard.                                       *)

\* n records with the scores 100 * n, ..., 200, 100
Ranked(n) == [i \in 1..n |-> to_dict(ScoreEntry(0, 100 * (n + 1 - i), "p", 0))]

\* the same records in ascending order of score
Ascending(n) == reversed(Ranked(n))

without_key(data, key) == [data EXCEPT !.keys = data.keys \ {key}]

WellFormedFiles ==
    {NoFile} \cup
    {File(DefaultPath, TRUE, "json_list", data) :
        data \in {Ranked(9), Ranked(10), Ranked(11), Ascending(10),
                  <<without_key(Ranked(1)[1], "name")>>}}

MalformedFiles ==
    {File(DefaultPath, TRUE, "not_json", <<>>),
     File(DefaultPath, TRUE, "not_records", <<>>)} \cup
    {File(DefaultPath, TRUE, "json_list", data) :
        data \in {<<without_key(Ranked(1)[1], "score")>>,
                  <<Ranked(1)[1], without_key(Ranked(1)[1], "timestamp")>>,
                  <<[Ranked(1)[1] EXCEPT !.timestamp = <<"text", 0, 0>>]>>}}

BoardFiles ==
    WellFormedFiles \cup MalformedFiles \cup {File(BarePath, FALSE, "json_list", <<>>)}

TestScript ==
    <<  <<"start_experiment">>,
        <<"change_instruction", "left">>,
        <<"update_intention", 95, 10>>,
        <<"change_instruction", "right">>,
        <<"update_intention", 10, 95>>,
        <<"end_experiment">>  >>

TestAt(op) == Constructed /\ pc \in 1..Len(TestScript) /\ TestScript[pc][1] = op

TestStart ==
    /\ TestAt("start_experiment")
    /\ start_experiment
    /\ pc' = pc + 1 /\ UNCHANGED <<calc, returned, calculator, others>>

TestUpdate ==
    /\ TestAt("update_intention")
    /\ update_intention(TestScript[pc][2], TestScript[pc][3])
    /\ pc' = pc + 1 /\ UNCHANGED <<calc, returned, calculator, others>>

TestChange ==
    /\ TestAt("change_instruction")
    /\ change_instruction(TestScript[pc][2])
    /\ pc' = pc + 1 /\ UNCHANGED <<calc, returned, calculator, others>>

TestEnd ==
    /\ TestAt("end_experiment")
    /\ end_experiment
    /\ pc' = pc + 1 /\ UNCHANGED <<calc, returned, calculator, others>>

GetLeaderboard ==
    /\ Constructed
    /\ get_leaderboard
    /\ UNCHANGED <<pc, calc, calculator, others>>

\* the scores a caller asks about
ScoreArgs == {0, 100, 101}

IsTop10Score ==
    /\ Constructed
    /\ \E score \in ScoreArgs : IsTop10ScoreCall(score)
    /\ UNCHANGED <<pc, calc, returned, calculator, others>>

\* the caller changes the list right after get_leaderboard gave it
CallerMutatesList ==
    /\ last.op = "get_leaderboard"
    /\ caller_mutates_list
    /\ UNCHANGED <<pc, calc, calculator, others>>

CallerMutatesEntry ==
    /\ last.op = "get_leaderboard"
    /\ caller_mutates_entry
    /\ UNCHANGED <<pc, calc, calculator, others>>

InitBoard ==
    /\ InitEngineFrom(BoardFiles)
    /\ InitCalculator
    /\ returned = <<>>
    /\ pc = 1
    /\ calc = NoCalc

NextBoard ==
    \/ TestStart
    \/ TestUpdate
    \/ TestChange
    \/ TestEnd
    \/ SubmitScore
    \/ IsTop10Score

SpecBoard == InitBoard /\ [][NextBoard]_vars

(* The caller of get_leaderboard: an engine constructed against a           *)
(* well-formed file, and a caller that submits, queries, takes the          *)
(* leaderboard and changes the list it was given or the last entry in it.   *)

InitCaller ==
    /\ InitEngineFrom(WellFormedFiles)
    /\ InitCalculator
    /\ returned = <<>>
    /\ pc = 0
    /\ calc = NoCalc

NextCaller ==
    \/ SubmitScore
    \/ IsTop10Score
    \/ GetLeaderboard
    \/ CallerMutatesList
    \/ CallerMutatesEntry

SpecCaller == InitCaller /\ [][NextCaller]_vars

----------------------------------------------------------------------------
(* _calculate_points applied to two averages drawn from the fractions       *)
(* n / PointsDen within PointsNear steps of a threshold, and 0 and 100.     *)

Thresholds == {50, 60, 70, 80, 90}

PointsInputs ==
    {Frac(n, PointsDen) : n \in
        {0, 100 * PointsDen} \cup
        UNION {(th * PointsDen - PointsNear)..(th * PointsDen + PointsNear) :
               th \in Thresholds}}

CalculatePoints ==
    /\ calc.px = None
    /\ calc' = [calc EXCEPT !.px = _calculate_points(calc.x),
                            !.py = _calculate_points(calc.y)]
    /\ UNCHANGED <<engine, now, open_mark, bonuses, last, pc, returned, calculator, others>>

InitPoints ==
    /\ InitEngine
    /\ InitCalculator
    /\ returned = <<>>
    /\ pc = 0
    /\ calc \in [x : PointsInputs, y : PointsInputs, px : {None}, py : {None}]

SpecPoints == InitPoints /\ [][CalculatePoints]_vars

----------------------------------------------------------------------------
(* Properties *)

\* the step just taken was a call of change_instruction(m)
ChangeCall(m) == last'.op = "change_instruction" /\ last'.arg = <<m>>

\* entries of the history whose timestamp lies in [start, end]
InPeriod(history, start, end) ==
    {i \in 1..Len(history) : start <= history[i][1] /\ history[i][1] <= end}

IsPrefix(s, t) == Len(s) <= Len(t) /\ SubSeq(t, 1, Len(s)) = s

PointValues == {0, 10, 25, 50, 75, 100}

\* the step table of the specification, lower bounds inclusive
TablePoints(x) ==
    IF FracGE(x, 90) THEN 100
    ELSE IF FracGE(x, 80) THEN 75
    ELSE IF FracGE(x, 70) THEN 50
    ELSE IF FracGE(x, 60) THEN 25
    ELSE IF FracGE(x, 50) THEN 10
    ELSE 0

\* C1 (general part): when change_instruction(new_mode) closes an open left
\* (resp. right) period, new_mode differs from the mode and at least one
\* history entry has its timestamp in [current_period_start, now], exactly one
\* record is appended, with the closing mode, the mean of the left (resp.
\* right) values of exactly those entries and the step-table points of that
\* mean, and current_score grows by those points.
C1_PeriodClosed ==
    [][\A m \in Modes :
         LET end_time == last'.end_time
             idx == InPeriod(intention_history, current_period_start, end_time)
             val(i) == IF current_mode = "left" THEN intention_history[i][2]
                       ELSE intention_history[i][3]
             RECURSIVE Total(_)
             Total(S) == IF S = {} THEN 0
                         ELSE LET i == CHOOSE i \in S : TRUE
                              IN  val(i) + Total(S \ {i})
             mean == Frac(Total(idx), Cardinality(idx))
         IN  (/\ ChangeCall(m)
              /\ current_period_start # None
              /\ current_mode \in LeftRight
              /\ m # current_mode
              /\ idx # {}) =>
                 /\ Len(instruction_periods') = Len(instruction_periods) + 1
                 /\ IsPrefix(instruction_periods, instruction_periods')
                 /\ LET rec == instruction_periods'[Len(instruction_periods')]
                    IN  /\ rec.mode = current_mode
                        /\ rec.start = current_period_start
                        /\ rec.end = end_time
                        /\ FracEq(rec.avg_intention, mean)
                        /\ rec.points = TablePoints(mean)
                        /\ current_score' = current_score + rec.points]_vars

\* C1 (scenario): start_experiment; change_instruction('left'); 5 x
\* update_intention(95,10); change_instruction('right') gives score 100, and
\* then 5 x update_intention(10,95); change_instruction('relax') gives score
\* 200.
C1_Scenario ==
    /\ pc = 9 => current_score = 100
    /\ pc = 15 => current_score = 200

\* C2 (general part): end_experiment adds exactly 200 to current_score if and
\* only if at least one left/right period is recorded and the mean of the
\* per-period means, each recomputed from the history over the period's
\* [start, end], is strictly greater than 90; otherwise the score is unchanged;
\* it returns the resulting current_score.
C2_BonusRule ==
    [][last'.op = "end_experiment" =>
         LET lr == {i \in 1..Len(instruction_periods) :
                        instruction_periods[i].mode \in LeftRight}
             avgs == all_left_right_intentions(instruction_periods,
                                               intention_history)
             earned == /\ lr # {}
                       /\ Len(avgs) = Cardinality(lr)
                       /\ FracGT(MeanFrac(avgs), 90)
         IN  /\ earned => current_score' = current_score + 200
             /\ ~earned => current_score' = current_score
             /\ FracEq(MeanFrac(avgs), Frac(90, 1)) => current_score' = current_score
             /\ last'.ret = current_score']_vars

\* C2 (scenario): in the scoring scenario, once both periods are recorded with
\* an average of 95 and the score is 200, end_experiment returns 400.
C2_Scenario ==
    (/\ pc = 16
     /\ Len(instruction_periods) = 2
     /\ \A i \in 1..2 : FracEq(instruction_periods[i].avg_intention, Frac(95, 1))) =>
        last.ret = 400

\* C3: _calculate_points is monotone non-decreasing, returns only values of
\* {0, 10, 25, 50, 75, 100}, and its thresholds are lower-bound inclusive:
\* x >= 90 gives 100, 80 <= x < 90 gives 75, 70 <= x < 80 gives 50,
\* 60 <= x < 70 gives 25, 50 <= x < 60 gives 10, x < 50 gives 0; 89.9 gives
\* 75, 90.0 gives 100 and 49.9 gives 0.
C3_PointsTable ==
    calc.px # None =>
        /\ calc.px \in PointValues /\ calc.py \in PointValues
        /\ FracLE2(calc.x, calc.y) => calc.px <= calc.py
        /\ calc.px = 100 <=> FracGE(calc.x, 90)
        /\ calc.px = 75 <=> (FracGE(calc.x, 80) /\ ~FracGE(calc.x, 90))
        /\ calc.px = 50 <=> (FracGE(calc.x, 70) /\ ~FracGE(calc.x, 80))
        /\ calc.px = 25 <=> (FracGE(calc.x, 60) /\ ~FracGE(calc.x, 70))
        /\ calc.px = 10 <=> (FracGE(calc.x, 50) /\ ~FracGE(calc.x, 60))
        /\ calc.px = 0 <=> ~FracGE(calc.x, 50)
        /\ calc.x = Frac(899, 10) => calc.px = 75
        /\ calc.x = Frac(900, 10) => calc.px = 100
        /\ calc.x = Frac(499, 10) => calc.px = 0

\* 89.9 and 90.0 have been evaluated together: 75 and 100 points
C3_Witness ==
    /\ calc.x = Frac(899, 10) /\ calc.y = Frac(900, 10)
    /\ calc.px = 75 /\ calc.py = 100

\* C4: a change_instruction(new_mode) call whose new_mode equals the current
\* mode never changes current_score and never appends an InstructionPeriod
\* record, whatever samples are in the history.
C4_SameModeNotScored ==
    [][\A m \in Modes :
         (ChangeCall(m) /\ m = current_mode) =>
             /\ current_score' = current_score
             /\ instruction_periods' = instruction_periods]_vars

\* a left->left or right->right call was made on an open period that holds
\* samples
C4_Witness ==
    /\ last.op = "change_instruction"
    /\ last.pre_mode \in LeftRight
    /\ last.arg = <<last.pre_mode>>
    /\ last.pre_start # None
    /\ InPeriod(intention_history, last.pre_start, now) # {}

\* C5 (as claimed): a change_instruction call whose new_mode equals the
\* current mode is a complete no-op: current_mode is unchanged and
\* current_period_start keeps its previous value.
C5_SameModeNoOp ==
    (last.op = "change_instruction" /\ last.arg = <<last.pre_mode>>) =>
        /\ current_mode = last.pre_mode
        /\ current_period_start = last.pre_start

\* C5 (amended): a change_instruction call whose new_mode equals the current
\* mode leaves current_mode, current_score, the recorded periods and the
\* history unchanged, but on an open period it reopens the period:
\* current_period_start becomes the clock reading of the call, so the samples
\* with an earlier timestamp are no longer inside the open period.
C5_SameModeReopens ==
    [][\A m \in Modes :
         (ChangeCall(m) /\ m = current_mode /\ current_period_start # None) =>
             /\ current_mode' = current_mode
             /\ current_score' = current_score
             /\ instruction_periods' = instruction_periods
             /\ intention_history' = intention_history
             /\ current_period_start' = now'
             /\ current_period_start' >= current_period_start]_vars

\* a same-mode call moved the period start past a sample of the open period
C5_Witness ==
    /\ last.op = "change_instruction"
    /\ last.arg = <<last.pre_mode>>
    /\ last.pre_start # None
    /\ current_period_start > last.pre_start
    /\ \E i \in 1..Len(intention_history) :
           /\ last.pre_start <= intention_history[i][1]
           /\ intention_history[i][1] < current_period_start

\* C6: closing a relax period (relax -> left or right) never changes
\* current_score and never appends an InstructionPeriod record, whatever
\* samples arrived during it; every recorded InstructionPeriod has mode left or
\* right.
C6_RelaxNeverScored ==
    /\ [](\A i \in 1..Len(instruction_periods) :
              instruction_periods[i].mode \in LeftRight)
    /\ [][\A m \in LeftRight :
            (ChangeCall(m) /\ current_mode = "relax") =>
                /\ current_score' = current_score
                /\ instruction_periods' = instruction_periods]_vars

\* a relax period that holds samples was closed by a change to left or right
C6_Witness ==
    /\ last.op = "change_instruction"
    /\ last.pre_mode = "relax"
    /\ last.arg \in {<<"left">>, <<"right">>}
    /\ last.pre_start # None
    /\ InPeriod(intention_history, last.pre_start, last.end_time) # {}

\* C7 (frame part): end_experiment leaves current_mode, current_period_start,
\* the recorded periods and the history unchanged, and adds no period points.
C7_EndKeepsPeriodOpen ==
    [][last'.op = "end_experiment" =>
         /\ UNCHANGED <<current_mode, current_period_start, instruction_periods,
                        intention_history>>
         /\ current_score' \in {current_score, current_score + BONUS_POINTS}]_vars

\* C7: end_experiment does not score the still-open period: the samples
\* received in the period that is open when it is called contribute nothing to
\* the bonus average, so the bonus is the one the history without them earns.
C7_OpenPeriodIgnored ==
    last.op = "end_experiment" =>
        bonus_points(instruction_periods, intention_history) =
        bonus_points(instruction_periods, SubSeq(intention_history, 1, open_mark))

\* C8: from any prior state start_experiment leaves current_score = 0, no
\* recorded period, an empty history, current_mode = relax and an open period
\* starting at the call time, and leaves the leaderboard unchanged; called
\* twice in a row it yields the state one call yields, apart from the period
\* start time.
C8_StartResets ==
    [][last'.op = "start_experiment" =>
         /\ current_score' = 0
         /\ instruction_periods' = <<>>
         /\ intention_history' = <<>>
         /\ current_mode' = "relax"
         /\ current_period_start' = now' /\ now' >= now
         /\ UNCHANGED <<leaderboard, leaderboard_file>>
         /\ last.op = "start_experiment" =>
                UNCHANGED <<current_score, instruction_periods, intention_history,
                            current_mode, leaderboard, leaderboard_file>>]_vars

\* start_experiment was called in the middle of a session, with a left or
\* right period open, on an engine whose leaderboard holds an entry
C8_Witness ==
    /\ last.op = "start_experiment"
    /\ last.pre_mode \in LeftRight
    /\ last.pre_start # None
    /\ leaderboard # <<>>
    /\ current_score = 0 /\ intention_history = <<>>

\* C9: on an engine on which start_experiment was never called,
\* change_instruction with any mode leaves every piece of state unchanged:
\* current_mode stays relax, current_period_start stays unset, the score stays
\* 0 and no period is recorded, for any number and order of such calls.
C9_BeforeStartNoOp ==
    /\ [](current_period_start = None =>
              /\ current_mode = "relax"
              /\ current_score = 0
              /\ instruction_periods = <<>>)
    /\ [][(last'.op = "change_instruction" /\ current_period_start = None) =>
              UNCHANGED <<engine, now>>]_vars

\* change_instruction('left') was called with samples stored and no period
\* open
C9_Witness ==
    /\ last.op = "change_instruction"
    /\ last.arg = <<"left">>
    /\ last.pre_start = None
    /\ current_period_start = None
    /\ intention_history # <<>>

\* C10: update_intention(left, right) appends exactly one entry (now, left,
\* right) at the end of the history and leaves current_score, current_mode,
\* current_period_start, the recorded periods and the leaderboard unchanged; no
\* operation other than start_experiment removes or reorders history entries.
C10_HistoryAppendOnly ==
    [][/\ last'.op = "update_intention" =>
            /\ intention_history' =
                   Append(intention_history,
                          <<now', last'.arg[1], last'.arg[2]>>)
            /\ now' >= now
            /\ UNCHANGED <<current_score, current_mode, current_period_start,
                           instruction_periods, leaderboard, leaderboard_file>>
       /\ last'.op # "start_experiment" =>
            IsPrefix(intention_history, intention_history')]_vars

\* update_intention was called with an entry already stored, a period recorded
\* and a positive score
C10_Witness ==
    /\ last.op = "update_intention"
    /\ Len(intention_history) >= 2
    /\ intention_history[Len(intention_history)] =
           <<now, last.arg[1], last.arg[2]>>
    /\ instruction_periods # <<>>
    /\ current_score > 0

----------------------------------------------------------------------------
(* Properties of the leaderboard *)

\* the step just taken was a submit_score call that returned
SubmitReturned == last'.op = "submit_score" /\ last'.raised = ""

\* the values of the entries of a list, without the objects' identities
Values(board) ==
    [i \in 1..Len(board) |->
        [score |-> board[i].score, name |-> board[i].name,
         timestamp |-> board[i].timestamp]]

SortedDesc(board) ==
    \A i \in 1..(Len(board) - 1) : board[i].score >= board[i + 1].score

\* the file holds exactly the list `board`
Persisted(file, board) ==
    /\ file.exists
    /\ file.form = "json_list"
    /\ file.data = [i \in 1..Len(board) |-> to_dict(board[i])]

\* C11 (result): submit_score returns True exactly when the entry it created
\* is kept, that is when fewer than 10 of the entries held before the call
\* score at least current_score, and every entry kept besides it was held
\* before.
C11_ReturnsKept ==
    [][SubmitReturned =>
         LET ahead == {i \in 1..Len(leaderboard) :
                          leaderboard[i].score >= current_score}
             kept == {i \in 1..Len(leaderboard') : leaderboard'[i].id = next_id}
         IN  /\ last'.ret = (kept # {})
             /\ last'.ret = (Cardinality(ahead) < TOP_N)
             /\ Cardinality(kept) <= 1
             /\ \A i \in 1..Len(leaderboard') :
                    \/ i \in kept
                    \/ \E j \in 1..Len(leaderboard) : leaderboard[j] = leaderboard'[i]]_vars

\* C11 (full leaderboard): when the leaderboard holds 10 entries that all
\* score strictly higher than current_score, submit_score returns False and
\* the ordered content of the leaderboard after the call is identical to its
\* content before the call.
C11_FullBoardUnchanged ==
    [][(/\ SubmitReturned
        /\ Len(leaderboard) = TOP_N
        /\ \A i \in 1..Len(leaderboard) : leaderboard[i].score > current_score) =>
            /\ last'.ret = FALSE
            /\ leaderboard' = leaderboard]_vars

\* C12 (after a submission): once submit_score has been called the
\* leaderboard holds at most 10 entries in descending order of score, and
\* when the call returned the file holds exactly the leaderboard
C12_AfterSubmit ==
    next_id > 1 =>
        /\ Len(leaderboard) <= TOP_N
        /\ SortedDesc(leaderboard)
        /\ (last.op = "submit_score" /\ last.raised = "") =>
               Persisted(leaderboard_file, leaderboard)

\* C12: in every state of an engine, from the construction against any
\* well-formed leaderboard file on, the leaderboard holds at most 10 entries
\* and is ordered by score descending, and after each submit_score that
\* returned the file holds exactly the in-memory leaderboard.
C12_BoardInvariant ==
    (Constructed /\ leaderboard_file \notin MalformedFiles) =>
        /\ Len(leaderboard) <= TOP_N
        /\ SortedDesc(leaderboard)
        /\ (last.op = "submit_score" /\ last.raised = "") =>
               Persisted(leaderboard_file, leaderboard)

\* C13: is_top_10_score(score) changes no state of the engine; it returns
\* True when the leaderboard holds fewer than 10 entries, whatever the score,
\* and otherwise True exactly when some entry scores strictly less than score,
\* that is when score is strictly greater than the minimum score.
C13_IsTop10Query ==
    [][last'.op = "is_top_10_score" =>
         LET score == last'.arg[1] IN
             /\ UNCHANGED <<engine, now, returned>>
             /\ Len(leaderboard) < TOP_N => last'.ret = TRUE
             /\ Len(leaderboard) >= TOP_N =>
                    last'.ret = (\E i \in 1..Len(leaderboard) :
                                     leaderboard[i].score < score)]_vars

\* is_top_10_score was asked about the minimum score of a leaderboard of 10
\* entries and answered False
C13_Witness ==
    /\ last.op = "is_top_10_score"
    /\ Len(leaderboard) = TOP_N
    /\ \A i \in 1..Len(leaderboard) : leaderboard[i].score >= last.arg[1]
    /\ \E i \in 1..Len(leaderboard) : leaderboard[i].score = last.arg[1]
    /\ last.ret = FALSE

\* C14 (the list): appending to, removing from or reordering the list
\* get_leaderboard returned leaves the engine's leaderboard unchanged
C14_ListIsACopy ==
    [][last'.op = "caller_mutates_list" => leaderboard' = leaderboard]_vars

\* C14: no mutation a caller performs on the value get_leaderboard returned,
\* on the list or on the score, name or timestamp of an entry in it, changes
\* the engine's own leaderboard.
C14_CallerCannotChangeBoard ==
    [][last'.op \in {"caller_mutates_list", "caller_mutates_entry"} =>
           leaderboard' = leaderboard]_vars

\* C15 (a save that succeeded): after a submit_score that returned, the
\* leaderboard a new engine loads from the file has the same length and order
\* and, entry by entry, the same score, name and timestamp
C15_RoundTripSaved ==
    (last.op = "submit_score" /\ last.raised = "") =>
        /\ _load_leaderboard_raises(leaderboard_file) = ""
        /\ Values(_load_leaderboard(leaderboard_file)) = Values(leaderboard)

\* C15: for any configured leaderboard file path, after a submit_score whose
\* save no failure of the file system interrupted, a new engine constructed
\* against the same file has a leaderboard of the same length and order and,
\* entry by entry, the same score, name and timestamp.
C15_RoundTrip ==
    (last.op = "submit_score" /\ last.raised # "OSError") =>
        /\ _load_leaderboard_raises(leaderboard_file) = ""
        /\ Values(_load_leaderboard(leaderboard_file)) = Values(leaderboard)

\* C16 (what is caught): a missing file, a file that is not JSON and a record
\* without its score or timestamp key give an engine with an empty leaderboard
C16_CaughtOnLoad ==
    (/\ last.op = "__init__"
     /\ \/ ~leaderboard_file.exists
        \/ load_error(leaderboard_file) \in CaughtOnLoad) =>
            /\ last.raised = ""
            /\ leaderboard = <<>>

\* C16: constructing an engine never raises because of the leaderboard file;
\* when the file is missing or malformed (not JSON, JSON that is not a list of
\* records, a record without score or timestamp, a timestamp that is not
\* ISO-8601) the engine starts with an empty leaderboard.
C16_ConstructNeverRaises ==
    last.op = "__init__" =>
        /\ last.raised = ""
        /\ (~leaderboard_file.exists \/ leaderboard_file \in MalformedFiles) =>
               leaderboard = <<>>

\* C17: submit_score returns True or False only when the leaderboard was
\* persisted: a save that failed (directory not created, file not opened or
\* not written) is raised to the caller.
C17_SaveFailureRaised ==
    (last.op = "submit_score" /\ last.raised = "") =>
        Persisted(leaderboard_file, leaderboard)

\* submit_score raised because the write failed half way, and the file does
\* not hold the leaderboard
C17_Witness ==
    /\ last.op = "submit_score"
    /\ last.raised = "OSError"
    /\ leaderboard # <<>>
    /\ ~Persisted(leaderboard_file, leaderboard)

----------------------------------------------------------------------------
(* AttentionCalculator.add_sample *)

\* The electrode values of the k-th sample stored: <<C3, CZ, C4>> and one
\* more channel.  Every value is distinct, so a buffer entry names the sample
\* and the channel it came from.
Sample(k) == <<3 * k - 2, 3 * k - 1, 3 * k, 0>>

\* what a caller passes to add_sample when k - 1 samples are stored: the
\* first 2, 3 or 4 values of the next sample
EegData(k) == {SubSeq(Sample(k), 1, n) : n \in 2..4}

add_sample_keeps_oldest(eeg_data) ==
    /\ IF Len(eeg_data) >= 3
       THEN /\ IF Len(left_buffer) + 1 > buffer_size
               THEN UNCHANGED <<left_buffer, center_buffer, right_buffer>>
               ELSE /\ left_buffer' = Append(left_buffer, eeg_data[1])
                    /\ center_buffer' = Append(center_buffer, eeg_data[2])
                    /\ right_buffer' = Append(right_buffer, eeg_data[3])
            /\ n_accepted' = n_accepted + 1
            /\ UNCHANGED n_rejected
       ELSE /\ n_rejected' = n_rejected + 1
            /\ UNCHANGED <<left_buffer, center_buffer, right_buffer, n_accepted>>
    /\ last' = Call("add_sample", <<Len(eeg_data)>>, None, None)
    /\ UNCHANGED <<engine, now, open_mark, bonuses, fs>>

add_sample(eeg_data) ==
    /\ IF Len(eeg_data) >= 3
       THEN /\ IF Len(left_buffer) + 1 > buffer_size
               THEN /\ left_buffer' = Tail(Append(left_buffer, eeg_data[1]))
                    /\ center_buffer' = Tail(Append(center_buffer, eeg_data[2]))
                    /\ right_buffer' = Tail(Append(right_buffer, eeg_data[3]))
               ELSE /\ left_buffer' = Append(left_buffer, eeg_data[1])
                    /\ center_buffer' = Append(center_buffer, eeg_data[2])
                    /\ right_buffer' = Append(right_buffer, eeg_data[3])
            /\ n_accepted' = n_accepted + 1
            /\ UNCHANGED n_rejected
       ELSE /\ n_rejected' = n_rejected + 1
            /\ UNCHANGED <<left_buffer, center_buffer, right_buffer, n_accepted>>
    /\ last' = Call("add_sample", <<Len(eeg_data)>>, None, None)
    /\ UNCHANGED <<engine, now, open_mark, bonuses, fs>>

----------------------------------------------------------------------------
(* AttentionCalculator.calculate_attention *)

\* A band power is a Python float.  Double(a, b) is the double
\* a + b * 2^-52 for a small integer a and b in {-1, 0, 1}: the integer a
\* itself, or a double next to it when 1 <= a <= 2.
Double(a, b) == <<a, b>>

\* the values the RMS of the filtered signal may take (lines 104-110)
Powers ==
    {Double(0, 0), Double(1, 0), Double(1, 1), Double(2, -1), Double(2, 0),
     Double(5, 0)}

Less(p, q) == p[1] < q[1] \/ (p[1] = q[1] /\ p[2] < q[2])

\* _calculate_motor_power: 0 below 100 samples, else the RMS `power` of the
\* band-pass filtered buffer
_calculate_motor_power(eeg_buffer, power) ==
    IF Len(eeg_buffer) < MIN_SAMPLES THEN Double(0, 0) ELSE power

\* line 54
insufficient_data(buffer) == Len(buffer) < MIN_SAMPLES

\* max(0, min(100, x)) of a fraction x
clamp(x) ==
    IF x[1] < 0 THEN Frac(0, 1)
    ELSE IF x[1] > 100 * x[2] THEN Frac(100, 1)
    ELSE x

\* int(x) of a fraction x >= 0
trunc(x) == x[1] \div x[2]

\* lines 64-67 on two powers that are not within a few doubles of each
\* other
laterality_reversed(left_power, right_power) ==
    IF left_power[1] + right_power[1] > 0
    THEN Frac(left_power[1] - right_power[1], left_power[1] + right_power[1])
    ELSE Frac(0, 1)

laterality(left_power, right_power) ==
    IF left_power[1] + right_power[1] > 0
    THEN Frac(right_power[1] - left_power[1], left_power[1] + right_power[1])
    ELSE Frac(0, 1)

\* lines 72-75: the two scaled values are computed to more digits than the
\* truncation looks at
attention(left_power, right_power) ==
    LET lat == laterality(left_power, right_power)
        left_attention == clamp(Frac(50 * lat[2] - lat[1] * 50, lat[2]))
        right_attention == clamp(Frac(50 * lat[2] + lat[1] * 50, lat[2]))
    IN  <<trunc(left_attention), trunc(right_attention)>>

\* lines 64-75 on two powers a + b * 2^-52 with the same a >= 1:
\* laterality * 50 is x * 2^-52 for x = 50 * (b_right - b_left) / (2 * a), and
\* the doubles next to 50 are 32 * 2^-52 apart, so 50 - x * 2^-52 and
\* 50 + x * 2^-52 both round to 50.0 when |x| <= 16; otherwise the one below
\* 50 truncates to 49
attention_of_close(left_power, right_power) ==
    LET x == Frac(50 * (right_power[2] - left_power[2]),
                  left_power[1] + right_power[1])
    IN  IF x[1] <= 16 * x[2] /\ -x[1] <= 16 * x[2] THEN <<50, 50>>
        ELSE IF x[1] > 0 THEN <<49, 50>>
        ELSE <<50, 49>>

\* lines 78-79: what the except branch returns
fallback_zero == <<0, 0>>

fallback_on_error == <<50, 50>>

\* The result of the band-power computation is the environment's: it
\* succeeds with two powers or raises.  last.arg holds what it did.
calculate_attention ==
    /\ IF insufficient_data(left_buffer)
       THEN last' = Call("calculate_attention",
                         <<"short", Double(0, 0), Double(0, 0)>>, <<50, 50>>, None)
       ELSE \/ \E pl \in Powers, pr \in Powers :
                  LET left_power == _calculate_motor_power(left_buffer, pl)
                      right_power == _calculate_motor_power(right_buffer, pr)
                  IN  last' = Call("calculate_attention",
                                   <<"ok", left_power, right_power>>,
                                   IF /\ left_power[1] + right_power[1] > 0
                                      /\ left_power[1] = right_power[1]
                                   THEN attention_of_close(left_power, right_power)
                                   ELSE attention(left_power, right_power),
                                   None)
            \/ last' = Call("calculate_attention",
                            <<"error", Double(0, 0), Double(0, 0)>>,
                            fallback_on_error, None)
    /\ UNCHANGED <<engine, now, open_mark, bonuses, calculator, others>>

----------------------------------------------------------------------------
(* The calculator fed one sample after the other *)

AddSample ==
    /\ n_accepted < MaxSamples
    /\ \E eeg_data \in EegData(n_accepted + 1) :
          /\ Len(eeg_data) < 3 => n_rejected < MaxRejected
          /\ add_sample(eeg_data)
    /\ UNCHANGED <<pc, calc, returned, others>>

SpecBuffer == Init /\ [][AddSample]_vars

(* The calculator fed up to MaxAttentionSamples samples and asked for the   *)
(* attention pair at any point                                              *)

AddAttentionSample ==
    /\ n_accepted < MaxAttentionSamples
    /\ AddSample

CalculateAttention ==
    /\ calculate_attention
    /\ UNCHANGED <<pc, calc, returned, others>>

NextAttention == AddAttentionSample \/ CalculateAttention

SpecAttention == Init /\ [][NextAttention]_vars

----------------------------------------------------------------------------
(* Properties of the calculator *)

\* C18: calculate_attention never raises, and it returns exactly (50, 50)
\* whenever the buffers hold fewer than 100 samples per channel or the
\* band-power computation raised an exception.
C18_NeutralFallback ==
    last.op = "calculate_attention" =>
        /\ last.raised = ""
        /\ (\/ Len(left_buffer) < MIN_SAMPLES
            \/ Len(center_buffer) < MIN_SAMPLES
            \/ Len(right_buffer) < MIN_SAMPLES
            \/ last.arg[1] = "error") => last.ret = <<50, 50>>

\* calculate_attention was called on 100 samples, the band-power computation
\* raised, and (50, 50) was returned
C18_Witness ==
    /\ last.op = "calculate_attention"
    /\ Len(left_buffer) >= MIN_SAMPLES
    /\ last.arg[1] = "error"
    /\ last.raised = ""
    /\ last.ret = <<50, 50>>

\* the band-power computation of the last calculate_attention call succeeded
\* on at least 100 samples
PowersComputed ==
    /\ last.op = "calculate_attention"
    /\ last.arg[1] = "ok"
    /\ Len(left_buffer) >= MIN_SAMPLES

\* C19: with at least 100 samples and the band powers computed, a left power
\* strictly lower than the right power gives left_attention <
\* right_attention, a right power strictly lower gives right_attention <
\* left_attention, and equal powers or two zero powers give (50, 50).
C19_StrictOrder ==
    PowersComputed =>
        LET left_power == last.arg[2]
            right_power == last.arg[3]
        IN  /\ Less(left_power, right_power) => last.ret[1] < last.ret[2]
            /\ Less(right_power, left_power) => last.ret[2] < last.ret[1]
            /\ left_power = right_power => last.ret = <<50, 50>>

\* C19 (amended): a left power lower than the right power gives
\* left_attention <= right_attention, and left_attention < right_attention
\* when the two powers differ by more than a few units in the last place of a
\* double; symmetrically for a lower right power; equal powers or two zero
\* powers give (50, 50); both values are integers in 0..100.
C19_OrderUpToRounding ==
    PowersComputed =>
        LET left_power == last.arg[2]
            right_power == last.arg[3]
        IN  /\ last.ret[1] \in 0..100 /\ last.ret[2] \in 0..100
            /\ Less(left_power, right_power) => last.ret[1] <= last.ret[2]
            /\ Less(right_power, left_power) => last.ret[2] <= last.ret[1]
            /\ left_power[1] < right_power[1] => last.ret[1] < last.ret[2]
            /\ right_power[1] < left_power[1] => last.ret[2] < last.ret[1]
            /\ left_power = right_power => last.ret = <<50, 50>>

\* the left power was 1 and the right power 5: the pair returned is (16, 83)
C19_Witness ==
    /\ PowersComputed
    /\ last.arg[2] = Double(1, 0)
    /\ last.arg[3] = Double(5, 0)
    /\ last.ret = <<16, 83>>

\* C20: after n accepted add_sample calls each buffer holds exactly the most
\* recent min(n, capacity) values of its channel in arrival order: the length
\* never exceeds the capacity, on overflow the oldest sample is the one
\* evicted, and position i of the three buffers comes from the same sample.
C20_MostRecentSamples ==
    LET n == n_accepted
        m == IF n < buffer_size THEN n ELSE buffer_size
    IN  /\ Len(left_buffer) = m
        /\ Len(center_buffer) = m
        /\ Len(right_buffer) = m
        /\ \A i \in 1..m :
               /\ left_buffer[i] = Sample(n - m + i)[1]
               /\ center_buffer[i] = Sample(n - m + i)[2]
               /\ right_buffer[i] = Sample(n - m + i)[3]

\* one sample more than the capacity was stored: the first sample is gone and
\* the buffers start with the second
C20_Witness ==
    /\ n_accepted = buffer_size + 1
    /\ Len(left_buffer) = buffer_size
    /\ left_buffer[1] = Sample(2)[1]
    /\ right_buffer[buffer_size] = Sample(buffer_size + 1)[3]

----------------------------------------------------------------------------
(* The capacity of the rolling buffers and the sampling rate *)

\* the sampling rates the claim names: the default and the engine's 250 Hz
SamplingRates == {250, DEFAULT_RATE}

\* AttentionCalculator(sampling_rate) for each of the rates, then add_sample
InitRates ==
    /\ InitEngine
    /\ InitCalculatorAt(SamplingRates)
    /\ InitBCI
    /\ change_frame = NoFrame
    /\ pc = 0
    /\ calc = NoCalc
    /\ returned = <<>>

SpecRates == InitRates /\ [][AddSample]_vars

\* C21: for every sampling rate passed to the constructor the buffers'
\* capacity is twice the sampling rate, so that no buffer ever holds more
\* than two seconds of samples (2 * fs of them).
C21_TwoSeconds ==
    /\ buffer_size = 2 * fs
    /\ Len(left_buffer) <= 2 * fs
    /\ Len(center_buffer) <= 2 * fs
    /\ Len(right_buffer) <= 2 * fs

----------------------------------------------------------------------------
(* BCIEngine: streaming and recording.  The GUI thread calls start_streaming,
   stop, start_recording and stop_recording; the stream thread runs
   gds_callback for each block the device delivers.  There is no lock, so
   the statements of stop_recording and of gds_callback interleave. *)

\* what the actions of the BCI engine leave alone
scoring == <<engine, now, open_mark, bonuses, pc, calc, returned, calculator,
             change_frame>>

is_streaming == _running
is_recording == _recording

\* start_streaming: line 267, and the thread of lines 297-301 (one at a time)
start_streaming ==
    /\ stopper = "idle"
    /\ stream.at = "idle"
    /\ _running' = TRUE
    /\ stream' = [stream EXCEPT !.at = "wait", !.error = ""]
    /\ last' = Call("start_streaming", <<>>, None, None)
    /\ UNCHANGED <<_recording, _csv_file, _csv_writer, open_files, rows,
                   stopper>>

\* stop: line 307
stop ==
    /\ stopper = "idle"
    /\ _running' = FALSE
    /\ last' = Call("stop", <<>>, None, None)
    /\ UNCHANGED <<_recording, _csv_file, _csv_writer, open_files, rows,
                   stream, stopper>>

\* what os.makedirs, open and the header's writerow may do
RecordingOutcomes == {"ok", "makedirs_fails", "open_fails", "header_fails"}

\* start_recording from line 324 on: the directory, the file, the writer,
\* the header, and only then the flag
start_recording_opens ==
    \E outcome \in RecordingOutcomes :
        LET f == Len(open_files) + 1 IN
        /\ f <= MaxFiles
        /\ IF outcome \in {"makedirs_fails", "open_fails"}
           THEN /\ last' = Raised("start_recording", <<outcome>>, "OSError")
                /\ UNCHANGED <<_recording, _csv_file, _csv_writer, open_files>>
           ELSE /\ open_files' = Append(open_files, TRUE)
                /\ _csv_file' = f
                /\ _csv_writer' = f
                /\ IF outcome = "header_fails"
                   THEN /\ last' = Raised("start_recording", <<outcome>>,
                                          "OSError")
                        /\ UNCHANGED _recording
                   ELSE /\ last' = Call("start_recording", <<outcome>>, None,
                                        None)
                        /\ _recording' = TRUE

\* start_recording without the test of lines 321-322
start_recording_unguarded ==
    /\ stopper = "idle"
    /\ start_recording_opens
    /\ UNCHANGED <<_running, rows, stream, stopper>>

\* start_recording (lines 314-343)
start_recording ==
    /\ stopper = "idle"
    /\ IF ~_running
       THEN /\ last' = Raised("start_recording", <<"not streaming">>,
                              "RuntimeError")
            /\ UNCHANGED <<_recording, _csv_file, _csv_writer, open_files>>
       ELSE start_recording_opens
    /\ UNCHANGED <<_running, rows, stream, stopper>>

\* stop_recording, statement by statement: lines 349-350, 351-352, 353, 354
stop_recording ==
    /\ last' = Call("stop_recording", <<stopper>>, None, None)
    /\ UNCHANGED <<_running, rows, stream>>
    /\ \/ /\ stopper = "idle"
          /\ _recording' = FALSE
          /\ stopper' = IF _recording THEN "close" ELSE "idle"
          /\ UNCHANGED <<_csv_file, _csv_writer, open_files>>
       \/ /\ stopper = "close"
          /\ IF _csv_file # None
             THEN /\ open_files' = [open_files EXCEPT ![_csv_file] = FALSE]
                  /\ stopper' = "clear_file"
             ELSE /\ stopper' = "idle"
                  /\ UNCHANGED open_files
          /\ UNCHANGED <<_recording, _csv_file, _csv_writer>>
       \/ /\ stopper = "clear_file"
          /\ _csv_file' = None
          /\ stopper' = "clear_writer"
          /\ UNCHANGED <<_recording, _csv_writer, open_files>>
       \/ /\ stopper = "clear_writer"
          /\ _csv_writer' = None
          /\ stopper' = "idle"
          /\ UNCHANGED <<_recording, _csv_file, open_files>>

\* csv's writerow on the writer that self._csv_writer holds
writerow_error ==
    IF _csv_writer = None THEN "AttributeError"
    ELSE IF ~open_files[_csv_writer] THEN "ValueError"
    ELSE ""

\* gds_callback on the stream thread, statement by statement: lines 270-284,
\* the test of line 287, one writerow of the loop of lines 289-291, line 295.
\* An exception ends the callback and with it the thread.
gds_callback ==
    /\ UNCHANGED <<_running, _recording, _csv_file, _csv_writer, open_files,
                   stopper>>
    /\ \/ /\ stream.at = "wait"
          /\ _running => stream.blocks < MaxBlocks
          /\ stream' = IF _running
                       THEN [stream EXCEPT !.at = "test",
                                           !.blocks = stream.blocks + 1]
                       ELSE [stream EXCEPT !.at = "idle"]
          /\ last' = Call("gds_callback", <<"block">>, None, None)
          /\ UNCHANGED rows
       \/ /\ stream.at = "test"
          /\ stream' = IF _recording /\ _csv_writer # None
                       THEN [stream EXCEPT !.at = "loop", !.left = BLOCK_SIZE]
                       ELSE [stream EXCEPT !.at = "return"]
          /\ last' = Call("gds_callback", <<"test">>, None, None)
          /\ UNCHANGED rows
       \/ /\ stream.at = "loop"
          /\ IF writerow_error # ""
             THEN /\ stream' = [stream EXCEPT !.at = "idle", !.left = 0,
                                              !.error = writerow_error]
                  /\ last' = Raised("gds_callback", <<"writerow">>,
                                    writerow_error)
                  /\ UNCHANGED rows
             ELSE /\ rows' = rows + 1
                  /\ stream' = [stream EXCEPT
                                    !.left = stream.left - 1,
                                    !.at = IF stream.left = 1 THEN "return"
                                           ELSE "loop"]
                  /\ last' = Call("gds_callback", <<"writerow">>, None, None)
       \/ /\ stream.at = "return"
          /\ stream' = [stream EXCEPT !.at = IF _running THEN "wait"
                                             ELSE "idle"]
          /\ last' = Call("gds_callback", <<"return">>, _running, None)
          /\ UNCHANGED rows

StartStreaming == start_streaming /\ UNCHANGED scoring
Stop == stop /\ UNCHANGED scoring
StartRecording == start_recording /\ UNCHANGED scoring
StopRecording == stop_recording /\ UNCHANGED scoring
GdsCallback == gds_callback /\ UNCHANGED scoring

NextRecording ==
    \/ StartStreaming
    \/ Stop
    \/ StartRecording
    \/ StopRecording
    \/ GdsCallback

SpecRecording == Init /\ [][NextRecording]_vars

\* C22: start_recording succeeds only while streaming: when is_streaming()
\* is False it raises RuntimeError and leaves the recording state as it was
\* (no flag set, no file opened, no writer installed).
C22_RecordingNeedsStreaming ==
    [][last'.op = "start_recording" =>
          /\ last'.raised = "" => is_streaming
          /\ ~is_streaming =>
                /\ last'.raised = "RuntimeError"
                /\ UNCHANGED <<_recording, _csv_file, _csv_writer,
                               open_files, rows>>]_vars

\* start_recording has raised RuntimeError on an engine that had streamed
\* and recorded rows before, and nothing is recording after it
C22_Witness ==
    /\ last.op = "start_recording"
    /\ last.raised = "RuntimeError"
    /\ ~is_streaming
    /\ ~is_recording
    /\ rows > 0
    /\ _csv_file = None
    /\ _csv_writer = None
    /\ \A f \in DOMAIN open_files : ~open_files[f]

\* C30: the callback on the stream thread never writes a row to a CSV file
\* that stop_recording has already closed: whenever the loop of lines
\* 289-291 is about to call writerow the writer is still installed and its
\* file still open, so no writerow raises.
C30_WritesOnlyWhileOpen ==
    /\ stream.at = "loop" =>
          _csv_writer # None /\ open_files[_csv_writer]
    /\ stream.error = ""

----------------------------------------------------------------------------
(* The recorded periods and the history, within one session *)

\* the mean end_experiment recomputes for a recorded period (lines 179-195)
recomputed_avg(period) ==
    Mean(period_intentions(intention_history, period.start, period.end,
                           period.mode))

\* C23: for every recorded period, in every state of the session (also after
\* later update_intention and change_instruction calls), the mean that
\* end_experiment recomputes over the entries with a timestamp in
\* [start, end] equals the avg_intention stored in the record.
C23_RecomputedEqualsStored ==
    \A k \in 1..Len(instruction_periods) :
        LET period == instruction_periods[k]
            xs == period_intentions(intention_history, period.start,
                                    period.end, period.mode)
        IN  /\ xs # <<>>
            /\ FracEq(recomputed_avg(period), period.avg_intention)

\* C24: each history entry contributes to at most one recorded period: no
\* entry has its timestamp in the closed interval [start, end] of two
\* different records, clock ties included.
C24_AtMostOnePeriod ==
    \A i \in 1..Len(intention_history) :
        \A j, k \in 1..Len(instruction_periods) :
            /\ i \in InPeriod(intention_history, instruction_periods[j].start,
                              instruction_periods[j].end)
            /\ i \in InPeriod(intention_history, instruction_periods[k].start,
                              instruction_periods[k].end)
            => j = k

----------------------------------------------------------------------------
(* end_experiment called more than once: the session of
   tests/test_scoring.py, in which the caller may call end_experiment at any
   point after start_experiment, as often as it likes, and may start the
   session again after its last step *)

EndAnytime ==
    /\ Constructed
    /\ pc > 1
    /\ bonuses < MaxEnds
    /\ end_experiment
    /\ UNCHANGED <<pc, calc, returned, calculator, others>>

StartAgain ==
    /\ Constructed
    /\ pc = Len(TestScript)
    /\ start_experiment
    /\ pc' = 2 /\ UNCHANGED <<calc, returned, calculator, others>>

NextEnds ==
    \/ TestStart
    \/ TestUpdate
    \/ TestChange
    \/ EndAnytime
    \/ StartAgain

SpecEnds == InitScenario /\ [][NextEnds]_vars

\* C25: between two consecutive start_experiment calls the bonus of 200 is
\* added at most once, however often end_experiment is called: an
\* end_experiment that follows an end_experiment with no operation in
\* between returns the same score.
C25_BonusAtMostOnce ==
    /\ [](bonuses <= 1)
    /\ [][last.op = "end_experiment" /\ last'.op = "end_experiment"
            => last'.ret = last.ret]_vars

----------------------------------------------------------------------------
(* Score accounting *)

\* sum of the points of the recorded periods
RECURSIVE SumPoints(_)
SumPoints(periods) ==
    IF periods = <<>> THEN 0
    ELSE Head(periods).points + SumPoints(Tail(periods))

ScoreAccounted ==
    /\ current_score = SumPoints(instruction_periods) + BONUS_POINTS * bonuses
    /\ current_score >= 0
    /\ current_score % 5 = 0

\* C27: current_score is always the sum of the points of the recorded
\* periods plus 200 for each bonus awarded since the last start_experiment;
\* so it is never negative, always a multiple of 5, and no operation other
\* than start_experiment decreases it.
C27_ScoreAccounting ==
    /\ []ScoreAccounted
    /\ [][current_score' < current_score => last'.op = "start_experiment"]_vars

\* a session with scored periods and a bonus, right after end_experiment
C27_Witness ==
    /\ last.op = "end_experiment"
    /\ bonuses = 1
    /\ Len(instruction_periods) = 2
    /\ SumPoints(instruction_periods) > 0
    /\ current_score = SumPoints(instruction_periods) + BONUS_POINTS

----------------------------------------------------------------------------
(* submit_score and is_top_10_score *)

\* C26: submit_score agrees with is_top_10_score: on every leaderboard that
\* submit_score calls can produce (at most 10 entries) and for every
\* current_score, a submit_score that returns returns True exactly when
\* is_top_10_score(current_score) is True right before the call; a score
\* equal to the lowest score of a full leaderboard gets False from both.
C26_SubmitAgreesWithQuery ==
    [][SubmitReturned /\ Len(leaderboard) <= TOP_N =>
          last'.ret = is_top_10_score(leaderboard, current_score)]_vars

\* submit_score has returned False for a score equal to the lowest score of
\* a leaderboard of 10 entries, which holds the same 10 entries after it
C26_Witness ==
    /\ last.op = "submit_score"
    /\ last.raised = ""
    /\ last.ret = FALSE
    /\ Len(leaderboard) = TOP_N
    /\ \A i \in 1..Len(leaderboard) : leaderboard[i].id < 0
    /\ min_score(leaderboard) = current_score
    /\ ~is_top_10_score(leaderboard, current_score)

\* C28: when persisting fails during submit_score the in-memory leaderboard
\* is left exactly as it was before the call, so that after every
\* submit_score, returning or raising, the leaderboard in memory is the one
\* last written to the file.
C28_FailedSaveKeepsBoard ==
    [][last'.op = "submit_score" /\ last'.raised # "" =>
          leaderboard' = leaderboard]_vars

----------------------------------------------------------------------------
(* update_intention on the acquisition thread while change_instruction runs
   on another thread, without a lock.  change_instruction reads the clock
   twice, at line 119 for end_time and at line 144 for the new
   current_period_start; the other thread may run between the two. *)

\* the clock of this section runs one reading further than MaxTime, so that
\* three readings can differ
RaceReads(t) == {u \in {t, t + 1} : u <= MaxTime + 1}

\* the session starts once
RaceStart ==
    /\ pc = 1
    /\ start_experiment
    /\ pc' = 2 /\ UNCHANGED <<calc, returned, calculator, others>>

\* update_intention (lines 93-94) on the acquisition thread
RaceUpdate ==
    /\ pc = 2
    /\ Len(intention_history) < MaxHist
    /\ \E t \in RaceReads(now) :
          /\ now' = t
          /\ intention_history' = Append(intention_history, <<t, 95, 10>>)
          /\ last' = Call("update_intention", <<95, 10>>, None, None)
    /\ UNCHANGED <<current_score, instruction_periods, current_period_start,
                   current_mode, leaderboard, leaderboard_file, next_id,
                   open_mark, bonuses, pc, calc, returned, calculator,
                   change_frame, bci>>

\* change_instruction up to line 140 in a started session (the test of
\* line 105 passes): end_time, the scan and the record
RaceChangeBegin ==
    /\ pc = 2
    /\ change_frame.at = "idle"
    /\ Len(instruction_periods) < MaxPeriods
    /\ \E new_mode \in Modes :
       LET award == should_award_points(current_mode, new_mode) IN
       \E end_time \in (IF award THEN RaceReads(now) ELSE {now}) :
          LET xs == IF award
                    THEN period_intentions(intention_history,
                             current_period_start, end_time, current_mode)
                    ELSE <<>>
              avg_intention == Mean(xs)
              points == _calculate_points(avg_intention)
          IN  /\ IF xs # <<>>
                 THEN /\ current_score' = current_score + points
                      /\ instruction_periods' =
                             Append(instruction_periods,
                                    PeriodRecord(current_period_start, end_time,
                                                 current_mode, avg_intention,
                                                 points))
                 ELSE UNCHANGED <<current_score, instruction_periods>>
              /\ now' = end_time
              /\ change_frame' = [at |-> "reopen", new_mode |-> new_mode,
                                  end_time |-> IF award THEN end_time ELSE None]
    /\ UNCHANGED <<current_period_start, current_mode, intention_history,
                   leaderboard, leaderboard_file, next_id, open_mark, bonuses,
                   last, pc, calc, returned, calculator, bci>>

\* change_instruction lines 142-144: the mode and the new start
RaceChangeEnd ==
    /\ change_frame.at = "reopen"
    /\ \E start \in RaceReads(now) :
          /\ now' = start
          /\ current_mode' = change_frame.new_mode
          /\ current_period_start' = start
          /\ open_mark' = Len(intention_history)
          /\ last' = Call("change_instruction", <<change_frame.new_mode>>,
                          None, change_frame.end_time)
    /\ change_frame' = NoFrame
    /\ UNCHANGED <<current_score, instruction_periods, intention_history,
                   leaderboard, leaderboard_file, next_id, bonuses, pc, calc,
                   returned, calculator, bci>>

NextRace ==
    \/ RaceStart
    \/ RaceUpdate
    \/ RaceChangeBegin
    \/ RaceChangeEnd

SpecRace == InitScenario /\ [][NextRace]_vars

\* C29: no intention sample is lost at a period boundary when
\* update_intention runs on another thread than change_instruction without
\* a lock: when change_instruction has closed a period at end_time and
\* opened the next at current_period_start, no entry of the history has a
\* timestamp after end_time and before current_period_start.
C29_NoSampleInGap ==
    last.op = "change_instruction" /\ last.end_time # None =>
        \A i \in 1..Len(intention_history) :
            ~(/\ last.end_time < intention_history[i][1]
              /\ intention_history[i][1] < current_period_start)

====
